---- MODULE Spec2Model ----
(***************************************************************************)
(* TabFilterCommand (tabfilter.py): a window command that lists the open   *)
(* views of a window in a quick panel and focuses the chosen one.          *)
(*                                                                         *)
(* The command object lives as long as its window: views and               *)
(* current_tab_idx are fields that survive from one run to the next.       *)
(* The host editor owns the window (groups, listed views, active view),    *)
(* the settings and the quick panel; it calls run, on_highlighted and      *)
(* on_done, and the command calls focus_view / open_file back.             *)
(*                                                                         *)
(* Indexes into views are 0-based as in the source (-1 is the sentinel);   *)
(* At(s, i) reads element i of a sequence.  Group indexes are the host's   *)
(* and are only passed through, so they are kept 1-based here.             *)
(***************************************************************************)
EXTENDS Integers, Sequences, FiniteSets

\* Bounds of the model.
MaxViews == 2
MaxGroups == 2

ViewIds == 1..MaxViews
\* window.active_view() is None
NoView == 0
\* view.file_name() is None (a buffer never saved)
NoFile == 0
Modifiers == {"shift", "primary", "alt"}

VARIABLES
    groups,           \* host: groups[g] = window.views_in_group(g)
    active_group,     \* host: window.active_group()
    active,           \* host: window.active_view(), NoView for None
    preview_tab,      \* host: the "preview_tab" setting
    views,            \* self.views
    current_tab_idx,  \* self.current_tab_idx
    panel,            \* quick panel: "closed", "preview" or "plain"
    selected_index,   \* selected_index the panel was opened with
    run_active,       \* the view that was active when run was invoked
    last,             \* the last operation and its arguments
    calls,            \* host calls made by the last handler, in order
    err               \* exception raised by the last handler, or "none"

host == <<groups, active_group, active, preview_tab>>
self == <<views, current_tab_idx>>
vars == <<groups, active_group, active, preview_tab, views, current_tab_idx,
          panel, selected_index, run_active, last, calls, err>>

----------------------------------------------------------------------------
\* Helpers

At(s, i) == s[i + 1]

Range(s) == {s[i] : i \in 1..Len(s)}

RECURSIVE Without(_, _)
Without(s, v) ==
    IF s = <<>> THEN <<>>
    ELSE IF Head(s) = v THEN Without(Tail(s), v)
    ELSE <<Head(s)>> \o Without(Tail(s), v)

\* views the host lists in some group
Listed == UNION {Range(groups[g]) : g \in 1..Len(groups)}

GroupOf(v) == CHOOSE g \in 1..Len(groups) : v \in Range(groups[g])

\* view.file_name(): view 1 stands for an unsaved buffer, every other view
\* shows a file of its own.
file_name(v) == IF v = 1 THEN NoFile ELSE v

Op(name, index, given, mods, ago) ==
    [op |-> name, index |-> index, given |-> given, mods |-> mods,
     active_group_only |-> ago]

EnvOp == Op("host", -1, FALSE, {}, FALSE)

----------------------------------------------------------------------------
\* The host window while no panel is shown

EnvDone ==
    /\ last' = EnvOp
    /\ calls' = <<>>
    /\ err' = "none"
    /\ UNCHANGED <<self, panel, selected_index, run_active>>

\* A file is opened as a tab of the active group and becomes active.
OpenView ==
    /\ panel = "closed"
    /\ \E v \in ViewIds \ Listed :
        /\ groups' = [groups EXCEPT ![active_group] = Append(@, v)]
        /\ active' = v
    /\ UNCHANGED <<active_group, preview_tab>>
    /\ EnvDone

\* A sheet the host shows without listing it in views_in_group (a transient
\* preview) becomes active; it goes away when focus moves elsewhere.
PreviewView ==
    /\ panel = "closed"
    /\ \E v \in ViewIds \ Listed :
        /\ v # active
        /\ active' = v
    /\ UNCHANGED <<groups, active_group, preview_tab>>
    /\ EnvDone

\* A tab is closed; when it was the active one the host activates another
\* view of the group, or none when the group is left empty.
CloseView ==
    /\ panel = "closed"
    /\ \E v \in Listed :
        LET g == GroupOf(v)
            rest == Without(groups[g], v)
        IN /\ groups' = [groups EXCEPT ![g] = rest]
           /\ IF active = v
              THEN IF rest = <<>> THEN active' = NoView
                   ELSE active' \in Range(rest)
              ELSE active' = active
    /\ UNCHANGED <<active_group, preview_tab>>
    /\ EnvDone

\* The user focuses a tab.
FocusView ==
    /\ panel = "closed"
    /\ \E v \in Listed :
        /\ v # active
        /\ active' = v
        /\ active_group' = GroupOf(v)
    /\ UNCHANGED <<groups, preview_tab>>
    /\ EnvDone

\* The user focuses another group: its active view becomes the window's.
FocusGroup ==
    /\ panel = "closed"
    /\ \E g \in 1..Len(groups) :
        /\ g # active_group
        /\ active_group' = g
        /\ IF groups[g] = <<>> THEN active' = NoView
           ELSE active' \in Range(groups[g])
    /\ UNCHANGED <<groups, preview_tab>>
    /\ EnvDone

\* The layout gains an empty group.
AddGroup ==
    /\ panel = "closed"
    /\ Len(groups) < MaxGroups
    /\ groups' = Append(groups, <<>>)
    /\ UNCHANGED <<active_group, active, preview_tab>>
    /\ EnvDone

\* The layout loses its last group; the host moves its views to the group
\* before it.
RemoveGroup ==
    /\ panel = "closed"
    /\ Len(groups) > 1
    /\ LET n == Len(groups)
           merged == groups[n - 1] \o groups[n]
       IN /\ groups' = SubSeq(groups, 1, n - 2) \o <<merged>>
          /\ active_group' = IF active_group = n THEN n - 1 ELSE active_group
          /\ IF active_group >= n - 1 /\ active = NoView /\ merged # <<>>
             THEN active' \in Range(merged)
             ELSE active' = active
    /\ UNCHANGED preview_tab
    /\ EnvDone

\* The user edits tabfilter.sublime-settings.
SetPreviewTab ==
    /\ panel = "closed"
    /\ preview_tab' = ~preview_tab
    /\ UNCHANGED <<groups, active_group, active>>
    /\ EnvDone

----------------------------------------------------------------------------
\* TabFilterCommand

\* run, lines 110-113: the group indexes handed to gather_tabs
run_groups(active_group_only) ==
    IF active_group_only THEN <<active_group>>
    ELSE [g \in 1..Len(groups) |-> g]

\* gather_tabs, lines 31-33: the views of the given groups, in order
RECURSIVE gathered(_)
gathered(group_indexes) ==
    IF group_indexes = <<>> THEN <<>>
    ELSE groups[Head(group_indexes)] \o gathered(Tail(group_indexes))

\* gather_tabs, line 34: active_view() is None and .id() is called on it for
\* the first view of the loop
gather_raises(group_indexes) ==
    active = NoView /\ gathered(group_indexes) # <<>>

\* gather_tabs, lines 30-33: self.views when gather_tabs returns or raises
\* (the first view is appended before the comparison that raises)
gather_views(group_indexes) ==
    IF gather_raises(group_indexes)
    THEN <<Head(gathered(group_indexes))>>
    ELSE gathered(group_indexes)

\* gather_idx with idx incremented before it is saved
RECURSIVE gather_idx_early_increment(_, _, _)
gather_idx_early_increment(vs, idx, cur) ==
    IF vs = <<>> THEN cur
    ELSE gather_idx_early_increment(Tail(vs), idx + 1,
                                    IF Head(vs) = active THEN idx + 1 ELSE cur)

\* gather_tabs, lines 29-38: the loop over the views, idx counting them and
\* current_tab_idx overwritten only where the active view is met
RECURSIVE gather_idx(_, _, _)
gather_idx(vs, idx, cur) ==
    IF vs = <<>> THEN cur
    ELSE gather_idx(Tail(vs), idx + 1, IF Head(vs) = active THEN idx ELSE cur)

\* gather_tabs: self.current_tab_idx afterwards
gather_current_tab_idx(group_indexes) ==
    IF gather_raises(group_indexes) THEN current_tab_idx
    ELSE gather_idx(gathered(group_indexes), 0, current_tab_idx)

\* run_preview without the num_groups() == 1 test
run_preview_any_layout(active_group_only) == preview_tab

\* run, lines 117-120
run_preview(active_group_only) ==
    IF active_group_only THEN preview_tab
    ELSE preview_tab /\ Len(groups) = 1

\* display_quick_info_panel: how the panel is opened.  "preview" registers
\* on_highlighted and asks for the event (WANT_EVENT); "plain" registers
\* on_done alone.
display_quick_info_panel(preview) ==
    IF preview
    THEN [panel |-> "preview", selected_index |-> current_tab_idx']
    ELSE [panel |-> "plain", selected_index |-> -1]

run(active_group_only) ==
    LET group_indexes == run_groups(active_group_only)
    IN /\ views' = gather_views(group_indexes)
       /\ current_tab_idx' = gather_current_tab_idx(group_indexes)
       /\ run_active' = active
       /\ last' = Op("run", -1, FALSE, {}, active_group_only)
       /\ calls' = <<>>
       /\ IF gather_raises(group_indexes)
          THEN /\ err' = "AttributeError"
               /\ UNCHANGED <<panel, selected_index>>
          ELSE LET shown == display_quick_info_panel(run_preview(active_group_only))
               IN /\ err' = "none"
                  /\ panel' = shown.panel
                  /\ selected_index' = shown.selected_index
       /\ UNCHANGED host

Run ==
    /\ panel = "closed"
    /\ \E active_group_only \in BOOLEAN : run(active_group_only)

\* Host calls
FocusCall(v) == [api |-> "focus_view", view |-> v, fname |-> NoFile,
                 flags |-> "-", extra |-> "-"]
OpenCall(f, extra) == [api |-> "open_file", view |-> NoView, fname |-> f,
                       flags |-> "ADD_TO_SELECTION", extra |-> extra]

\* window.focus_view(v): the view becomes the active view of the window
\* (a view the host no longer lists is left alone)
focus_view(h, v) ==
    IF v \in Listed THEN [active |-> v, active_group |-> GroupOf(v)] ELSE h

\* window.open_file(fname, ADD_TO_SELECTION, ...): the file is already open;
\* whether its view takes the focus is the host's choice (moves)
open_file(h, f, moves) ==
    IF moves /\ f \in Listed THEN [active |-> f, active_group |-> GroupOf(f)]
    ELSE h

RECURSIVE host_after(_, _, _)
host_after(h, cs, moves) ==
    IF cs = <<>> THEN h
    ELSE host_after(IF Head(cs).api = "focus_view"
                    THEN focus_view(h, Head(cs).view)
                    ELSE open_file(h, Head(cs).fname, moves),
                    Tail(cs), moves)

\* on_highlighted, lines 100-101
on_highlighted_calls(index) ==
    IF index > -1 /\ index < Len(views)
    THEN <<FocusCall(At(views, index))>>
    ELSE <<>>

\* on_highlighted that also saves the highlighted index
on_highlighted_saving_index(index) ==
    LET h == host_after([active |-> active, active_group |-> active_group],
                        on_highlighted_calls(index), FALSE)
    IN /\ calls' = on_highlighted_calls(index)
       /\ active' = h.active
       /\ active_group' = h.active_group
       /\ last' = Op("on_highlighted", index, FALSE, {}, FALSE)
       /\ err' = "none"
       /\ current_tab_idx' = index
       /\ UNCHANGED <<groups, preview_tab, views, panel, selected_index, run_active>>

\* on_highlighted, lines 98-101
on_highlighted(index) ==
    LET h == host_after([active |-> active, active_group |-> active_group],
                        on_highlighted_calls(index), FALSE)
    IN /\ calls' = on_highlighted_calls(index)
       /\ active' = h.active
       /\ active_group' = h.active_group
       /\ last' = Op("on_highlighted", index, FALSE, {}, FALSE)
       /\ err' = "none"
       /\ UNCHANGED <<groups, preview_tab, self, panel, selected_index, run_active>>

\* The host reports the highlighted row of a panel opened with on_highlight.
OnHighlighted ==
    /\ panel = "preview"
    /\ \E index \in -1..Len(views) : on_highlighted(index)

\* side_by_side_enabled without the file_name() test
side_by_side_enabled_any_file(index) ==
    current_tab_idx # -1 /\ current_tab_idx # index

\* on_done, lines 77-79
side_by_side_enabled(index) ==
    LET not_transient == file_name(At(views, index)) # NoFile
        other_view == current_tab_idx # index
    IN current_tab_idx # -1 /\ not_transient /\ other_view

\* side_by_side_mode with the primary test ahead of the shift test
side_by_side_mode_primary_first(index, modifiers) ==
    IF "primary" \in modifiers /\ side_by_side_enabled(index) THEN "primary"
    ELSE IF "shift" \in modifiers /\ side_by_side_enabled(index) THEN "shift"
    ELSE IF "alt" \in modifiers /\ side_by_side_enabled(index) THEN "alt"
    ELSE "focus"

\* on_done, lines 82-95: the branch taken, by the order of the tests
side_by_side_mode(index, modifiers) ==
    IF "shift" \in modifiers /\ side_by_side_enabled(index) THEN "shift"
    ELSE IF "primary" \in modifiers /\ side_by_side_enabled(index) THEN "primary"
    ELSE IF "alt" \in modifiers /\ side_by_side_enabled(index) THEN "alt"
    ELSE "focus"

\* on_done, lines 85, 89, 94: what follows ADD_TO_SELECTION in open_file
open_file_extra(mode) ==
    CASE mode = "shift" -> "-"
      [] mode = "primary" -> "CLEAR_TO_RIGHT"
      [] mode = "alt" -> "REPLACE_MRU"

\* on_done, lines 70-96: the exception raised, or "none".  given: whether the
\* host passes the event argument.
on_done_err(index, given, modifiers) ==
    IF ~given THEN "TypeError"
    ELSE IF index = -1 /\ current_tab_idx # -1
    THEN IF current_tab_idx >= Len(views) THEN "IndexError" ELSE "none"
    ELSE IF index > -1 /\ index < Len(views)
    THEN IF side_by_side_mode(index, modifiers) # "focus"
            /\ current_tab_idx >= Len(views)
         THEN "IndexError" ELSE "none"
    ELSE "none"

\* on_done, lines 70-96: the host calls made, in order
on_done_calls(index, given, modifiers) ==
    IF on_done_err(index, given, modifiers) # "none" THEN <<>>
    ELSE IF index = -1 /\ current_tab_idx # -1
    THEN <<FocusCall(At(views, current_tab_idx))>>
    ELSE IF index > -1 /\ index < Len(views)
    THEN LET mode == side_by_side_mode(index, modifiers)
         IN IF mode = "focus" THEN <<FocusCall(At(views, index))>>
            ELSE <<FocusCall(At(views, current_tab_idx)),
                   OpenCall(file_name(At(views, index)), open_file_extra(mode))>>
    ELSE <<>>

on_done(index, given, modifiers) ==
    \E moves \in BOOLEAN :
        LET cs == on_done_calls(index, given, modifiers)
            h == host_after([active |-> active, active_group |-> active_group],
                            cs, moves)
        IN /\ calls' = cs
           /\ err' = on_done_err(index, given, modifiers)
           /\ active' = h.active
           /\ active_group' = h.active_group
           /\ last' = Op("on_done", index, given, modifiers, FALSE)
           /\ panel' = "closed"
           /\ UNCHANGED <<groups, preview_tab, self, selected_index, run_active>>

\* The host completes the panel: a row is confirmed, or the panel is
\* cancelled (index -1).  The event is passed only to a callback registered
\* with WANT_EVENT.
OnDone ==
    /\ panel # "closed"
    /\ \E index \in -1..(Len(views) - 1) :
        IF panel = "preview"
        THEN \E modifiers \in SUBSET Modifiers : on_done(index, TRUE, modifiers)
        ELSE on_done(index, FALSE, {})

----------------------------------------------------------------------------

Init ==
    /\ groups = <<<<>>>>
    /\ active_group = 1
    /\ active = NoView
    /\ preview_tab = FALSE
    /\ views = <<>>
    /\ current_tab_idx = -1
    /\ panel = "closed"
    /\ selected_index = -1
    /\ run_active = NoView
    /\ last = EnvOp
    /\ calls = <<>>
    /\ err = "none"

Next ==
    \/ OpenView
    \/ PreviewView
    \/ CloseView
    \/ FocusView
    \/ FocusGroup
    \/ AddGroup
    \/ RemoveGroup
    \/ SetPreviewTab
    \/ Run
    \/ OnHighlighted
    \/ OnDone

Spec == Init /\ [][Next]_vars

----------------------------------------------------------------------------
\* Properties

ValidIndex(index) == index > -1 /\ index < Len(views)

\* position of v in vs (0-based), -1 when v is not in vs
PositionOf(vs, v) ==
    IF \E i \in 1..Len(vs) : vs[i] = v
    THEN (CHOOSE i \in 1..Len(vs) : vs[i] = v) - 1
    ELSE -1

CountCalls(api) == Cardinality({k \in 1..Len(calls) : calls[k].api = api})

\* C1: after on_done(-1) the window is focused on the view that was active
\* when run was invoked, whatever on_highlighted did in between.
CancelRestoresFocus ==
    (last.op = "on_done" /\ last.index = -1) => active = run_active

\* C2: after on_done confirms a valid index i with no modifier key held the
\* window is focused on views[i], in a preview panel (event passed) and in a
\* plain panel (index only) alike.
ConfirmFocusesChosen ==
    (last.op = "on_done" /\ ValidIndex(last.index) /\ last.mods = {})
        => active = At(views, last.index)

\* C3: after every run (here: every run that returns), views is the list of
\* the views of the gathered groups and current_tab_idx is the position of
\* the active view in it, or -1 when the active view is not in it.
RunResetsFields ==
    (last.op = "run" /\ err = "none")
        => /\ views = gathered(run_groups(last.active_group_only))
           /\ current_tab_idx = PositionOf(views, active)

\* C4: a preview panel is opened with selected_index equal to the index i
\* such that views[i] is the view that was active when run was invoked.
PreselectIsActive ==
    (panel = "preview" /\ run_active \in Range(views))
        => /\ ValidIndex(selected_index)
           /\ At(views, selected_index) = run_active

PreselectIsActiveWitness ==
    /\ panel = "preview"
    /\ run_active \in Range(views)
    /\ selected_index = 1
    /\ last.op = "run"

\* C5: on_done with a valid index i, a modifier held, current_tab_idx # -1,
\* i # current_tab_idx and views[i] showing a file first focuses
\* views[current_tab_idx], then opens the file of views[i] with
\* ADD_TO_SELECTION, and never calls focus_view(views[i]).
SideBySideOpensBeside ==
    (/\ last.op = "on_done"
     /\ ValidIndex(last.index)
     /\ last.mods # {}
     /\ current_tab_idx # -1
     /\ last.index # current_tab_idx
     /\ file_name(At(views, last.index)) # NoFile)
        => /\ Len(calls) = 2
           /\ calls[1] = FocusCall(At(views, current_tab_idx))
           /\ calls[2].api = "open_file"
           /\ calls[2].fname = file_name(At(views, last.index))
           /\ calls[2].flags = "ADD_TO_SELECTION"
           /\ \A k \in 1..Len(calls) : calls[k] # FocusCall(At(views, last.index))

\* C6: a preview panel is shown only with preview_tab set and the views of a
\* single group listed; while a plain panel is open no callback has made a
\* host call and the active view is the one run found.
PreviewOnlySinglePane ==
    /\ panel = "preview"
        => /\ preview_tab
           /\ Cardinality({GroupOf(v) : v \in Range(views)}) <= 1
    /\ panel = "plain"
        => /\ active = run_active
           /\ calls = <<>>

PreviewOnlySinglePaneWitness ==
    /\ panel = "plain"
    /\ preview_tab
    /\ Cardinality({GroupOf(v) : v \in Range(views)}) = 2
    /\ active = run_active

HighlightFocusesOnly ==
    [][last'.op = "on_highlighted"
        => /\ views' = views
           /\ current_tab_idx' = current_tab_idx
           /\ IF last'.index > -1 /\ last'.index < Len(views)
              THEN /\ calls' = <<FocusCall(At(views, last'.index))>>
                   /\ active' = At(views, last'.index)
              ELSE /\ calls' = <<>>
                   /\ active' = active
                   /\ active_group' = active_group]_vars

HighlightFocusesOnlyWitness ==
    /\ last.op = "on_highlighted"
    /\ ValidIndex(last.index)
    /\ last.index # current_tab_idx
    /\ active = At(views, last.index)
    /\ active # run_active

\* C9: every on_done makes at most one open_file call and at most one
\* focus_view call, and the open_file it makes is the one of the first held
\* modifier in the order shift, primary (CLEAR_TO_RIGHT), alt (REPLACE_MRU).
ExactlyOneOutcome ==
    last.op = "on_done"
        => /\ CountCalls("open_file") <= 1
           /\ CountCalls("focus_view") <= 1
           /\ \A k \in 1..Len(calls) :
                calls[k].api = "open_file"
                    => calls[k].extra =
                         IF "shift" \in last.mods THEN "-"
                         ELSE IF "primary" \in last.mods THEN "CLEAR_TO_RIGHT"
                         ELSE "REPLACE_MRU"

ExactlyOneOutcomeWitness ==
    /\ last.op = "on_done"
    /\ last.mods = Modifiers
    /\ CountCalls("open_file") = 1
    /\ CountCalls("focus_view") = 1

\* C10: in every reachable state current_tab_idx is -1 or an index of views.
IndexInRange ==
    current_tab_idx = -1 \/ (0 <= current_tab_idx /\ current_tab_idx < Len(views))

====
